---- MODULE Spec2Model ----
(***************************************************************************)
(* Model of go-distributed-object-storage: the sharding router            *)
(* (DistributedStorage), the per-node adapter (MinioStorage), the HTTP     *)
(* gateway handlers and the process entry point (main).                    *)
(*                                                                         *)
(* Strings are modelled as sequences of parts so that Contains, Split and  *)
(* the fmt verbs are computed rather than assumed.  The backends (MinIO),  *)
(* the Docker API and the consistent-hashing library are the environment:  *)
(* their observable behaviour is modelled, the code around them is         *)
(* translated from the source.                                             *)
(***************************************************************************)
EXTENDS Integers, Sequences, FiniteSets, TLC

\* ------------------------------------------------------------ bounds
\* virtual nodes per member on the ring (the library default is 20)
Replicas == 2
\* length of the container list the Docker API may return
MaxContainers == 3
\* number of requests (router, adapter or gateway calls) in one run
MaxOps == 3
\* number of node up/down changes in one run
MaxFlips == 1
\* number of hash functions of the family tried
NumSeeds == 1
\* number of router calls that may be in progress at the same time
MaxInflight == 2

\* ------------------------------------------------------------ constants
MaxIDLen == 32
LoadNum == 5
LoadDen == 4
DefaultPartitionCount == 271
MinioApiPort == 9000
\* size of the modelled hash space (a prime, so that Sum64 is a permutation)
HashSpace == 100 + 1
StatusOK == 200
StatusBadRequest == 400
StatusNotFound == 404
StatusInternalServerError == 500

ContainerNamePattern == <<"amazin-object-storage-node-">>
MinioAccessKeyEnv == "MINIO_ACCESS_KEY"
MinioSecretKeyEnv == "MINIO_SECRET_KEY"
MinioKeyNotExistErrString == <<"The specified key does not exist.">>

Nil == "nil"
NoErr == <<>>

\* ------------------------------------------------------------ strings
Rep(c, n) == [i \in 1..n |-> c]

Lower == {"a","b","c","d","e","f","g","h","i","j","k","l","m",
          "n","o","p","q","r","s","t","u","v","w","x","y","z"}
Upper == {"A","B","C","D","E","F","G","H","I","J","K","L","M",
          "N","O","P","Q","R","S","T","U","V","W","X","Y","Z"}
Digit == {"0","1","2","3","4","5","6","7","8","9"}

AlNum == Lower \cup Upper \cup Digit

\* strings.Contains: a string is a sequence of atoms, a substring a run of them
Contains(s, sub) ==
  \/ Len(sub) = 0
  \/ \E i \in 1..(Len(s) - Len(sub) + 1) : SubSeq(s, i, i + Len(sub) - 1) = sub

\* ------------------------------------------------------------ inputs
\* object ids (sequences of characters) the callers may send
IdList ==
  << <<"a">>, <<"Z","9">>, Rep("k", MaxIDLen),
     <<>>, Rep("k", MaxIDLen + 1), <<"i","@","D">> >>
IdSet == {IdList[i] : i \in 1..Len(IdList)}
\* the ids a caller of the router itself uses (the router takes any id)
RouterIds == {<<>>, <<"a">>, <<"i","@","D">>}


Object(id, ct, content) == [ID |-> id, ContentType |-> ct, Content |-> content]

\* the Docker containers that may be running (types.Container, and what
\* ContainerInspect answers for each): Names are strings, Env entries are
\* given as strings.Split(env, "=") returns them, the key followed by the
\* parts of the value (each a sequence of characters)
Container(id, names, hasNet, ips, inspectOk, env) ==
  [ID |-> id, Names |-> names, HasNet |-> hasNet, IPs |-> ips,
   InspectOk |-> inspectOk, Env |-> env]
StorageName(n) == <<"/">> \o ContainerNamePattern \o <<n>>
ContainerList ==
  << Container(<<"c1">>, <<StorageName("1")>>, TRUE, << <<"10.0.0.1">> >>, TRUE,
               << <<MinioAccessKeyEnv, <<"r","i","n","g">> >>,
                  <<MinioSecretKeyEnv, <<"t","r","e","e">> >> >>),
     Container(<<"c2">>, <<StorageName("2")>>, TRUE, << <<>>, <<"10.0.0.2">> >>, TRUE,
               << <<"PATH">>, <<MinioAccessKeyEnv, <<"r","i","n","g">> >>,
                  <<MinioSecretKeyEnv, <<"s","3","c">> >> >>),
     Container(<<"c3">>, <<StorageName("3")>>, TRUE, << <<"10.0.0.3">> >>, TRUE,
               << <<MinioSecretKeyEnv, <<"p">>, <<"w">> >> >>),
     Container(<<"c4">>, << <<"/", "gateway-container">> >>, TRUE, << <<"10.0.0.4">> >>, TRUE, <<>>),
     Container(<<"c5">>, <<StorageName("5")>>, TRUE, << <<>> >>, TRUE, <<>>),
     Container(<<"c6">>, <<StorageName("6")>>, TRUE, << <<"10.0.0.6">> >>, FALSE, <<>>),
     Container(<<"c7">>, <<StorageName("7")>>, FALSE, <<>>, TRUE, <<>>) >>
Containers == {ContainerList[i] : i \in 1..Len(ContainerList)}

\* the endpoint the integration test talks to directly
TestEndpoint == <<"localhost", ":", "19001">>
\* ------------------------------------------------------------ hashing
\* A byte key is one of: an object id, a virtual-node key (member token
\* followed by the replica number) or the 8 bytes of a partition id.
\* KeyCode numbers the keys of the model, one number per distinct key.
IdCode(id) == CHOOSE i \in 1..Len(IdList) : IdList[i] = id
TokenCode(token) == CHOOSE i \in 1..Len(ContainerList) : ContainerList[i].ID = <<token[1]>>
IdKey(id) == IdCode(id)
VNodeKey(token, i) == Len(IdList) + (TokenCode(token) - 1) * (Replicas + 1) + i + 1
PartKey(partID) == Len(IdList) + Len(ContainerList) * (Replicas + 1) + partID + 1

\* hasher.Sum64: xxhash, a well-distributed 64-bit hash; modelled as one of
\* a family of permutations of the hash space (no two keys of the model
\* collide), selected by the variable hseed
Sum64(seed, data) ==
  LET x == (data + 7 * (seed + 1)) % HashSpace
  IN  (x * x * x * (2 * seed + 3)) % HashSpace

\* ------------------------------------------------------------ hash ring
\* consistent.Consistent as the router uses it: New, Add, LocateKey
EmptyFn == [x \in {} |-> Nil]
NilCircle == [nil |-> TRUE]
\* a nil consistent.Member (an interface holding nothing)
NilMember == <<>>

\* sort.Slice(sortedSet, ascending)
RECURSIVE SortHashes(_)
SortHashes(q) ==
  IF Len(q) <= 1 THEN q
  ELSE LET m == CHOOSE i \in 1..Len(q) : \A j \in 1..Len(q) : q[i] <= q[j]
           rest == [k \in 1..(Len(q) - 1) |-> IF k < m THEN q[k] ELSE q[k + 1]]
       IN  <<q[m]>> \o SortHashes(rest)

\* consistent.New(nil, Config{PartitionCount, ReplicationFactor: 0, Load: 1.25}):
\* a zero PartitionCount or ReplicationFactor is replaced by the default
NewCircle(seed, partitionCount) ==
  [nil |-> FALSE, panicked |-> FALSE, seed |-> seed,
   members |-> {}, sortedSet |-> <<>>, ring |-> EmptyFn,
   partitionCount |-> IF partitionCount = 0 THEN DefaultPartitionCount ELSE partitionCount,
   partitions |-> EmptyFn]

\* Consistent.add: place the member's virtual nodes, keep sortedSet sorted
RingAdd(c, member) ==
  LET hs == [i \in 1..Replicas |-> Sum64(c.seed, VNodeKey(member, i - 1))]
      hset == {hs[i] : i \in 1..Replicas}
  IN  [c EXCEPT !.ring = [h \in (DOMAIN c.ring) \cup hset |->
                            IF h \in hset THEN member ELSE c.ring[h]],
                !.sortedSet = SortHashes(c.sortedSet \o hs),
                !.members = c.members \cup {member}]

\* Consistent.AverageLoad: ceil(float64(partitionCount / len(members)) * Load)
AverageLoad(c) ==
  IF c.members = {} THEN 0
  ELSE ((c.partitionCount \div Cardinality(c.members)) * LoadNum + LoadDen - 1) \div LoadDen

LoadOf(loads, member) == IF member \in DOMAIN loads THEN loads[member] ELSE 0

\* Consistent.distributeWithLoad: walk the ring from idx to the first member
\* with room; the result is the new (partitions, loads), or a panic
RECURSIVE DistributeWithLoad(_, _, _, _, _, _)
DistributeWithLoad(c, partID, idx, count, partitions, loads) ==
  IF count >= Len(c.sortedSet)
  THEN [panicked |-> TRUE, partitions |-> partitions, loads |-> loads]
  ELSE LET member == c.ring[c.sortedSet[idx]]
           load == LoadOf(loads, member)
       IN  IF load + 1 <= AverageLoad(c)
           THEN [panicked |-> FALSE,
                 partitions |-> [p \in (DOMAIN partitions) \cup {partID} |->
                                   IF p = partID THEN member ELSE partitions[p]],
                 loads |-> [m \in (DOMAIN loads) \cup {member} |->
                              IF m = member THEN load + 1 ELSE loads[m]]]
           ELSE DistributeWithLoad(c, partID,
                                   IF idx + 1 > Len(c.sortedSet) THEN 1 ELSE idx + 1,
                                   count + 1, partitions, loads)

\* sort.Search(len(sortedSet), sortedSet[i] >= key), wrapped to the start
SearchIdx(c, key) ==
  LET hits == {i \in 1..Len(c.sortedSet) : c.sortedSet[i] >= key}
  IN  IF hits = {} THEN 1 ELSE CHOOSE i \in hits : \A j \in hits : i <= j

\* Consistent.distributePartitions: every partition id, from scratch
RECURSIVE DistributeLoop(_, _, _, _)
DistributeLoop(c, partID, partitions, loads) ==
  IF partID >= c.partitionCount
  THEN [c EXCEPT !.partitions = partitions]
  ELSE LET key == Sum64(c.seed, PartKey(partID))
           r == DistributeWithLoad(c, partID, SearchIdx(c, key), 1, partitions, loads)
       IN  IF r.panicked THEN [c EXCEPT !.panicked = TRUE]
           ELSE DistributeLoop(c, partID + 1, r.partitions, r.loads)

DistributePartitions(c) == DistributeLoop(c, 0, EmptyFn, EmptyFn)

\* Consistent.Add: a member already present is left alone
CircleAdd(c, member) ==
  IF c.panicked \/ member \in c.members THEN c
  ELSE DistributePartitions(RingAdd(c, member))

\* Consistent.LocateKey: FindPartitionID (hash % partitionCount), then the
\* partition's owner; NilMember when the partition has no owner
LocateKey(c, id) ==
  LET partID == Sum64(c.seed, IdKey(id)) % c.partitionCount
  IN  IF partID \in DOMAIN c.partitions THEN c.partitions[partID] ELSE NilMember
\* ------------------------------------------------------------ state
VARIABLES
  pc,                 \* main: "start", "initialized", "serving", "stopped", "exited"
  hseed,              \* which hash function of the family Sum64 is
  up,                 \* backend endpoint -> reachable
  bucket,             \* backend endpoint -> the bucket exists
  store,              \* backend endpoint -> (object id -> stored content type and content)
  circle,             \* DistributedStorage.circle
  availableStorages,  \* DistributedStorage.availableStorages: token -> adapter
  nodes,              \* the node list of the last Init (its local variable)
  initErr,            \* what Init returned (main drops it)
  last,               \* the last request: what was asked, what was called, what came back
  lastPut,            \* object id -> the object of the latest router Put that returned
                      \* nil, and whether it replaced a different object
  nops,               \* requests so far
  flips,              \* node up/down changes so far
  listed,             \* what the Docker API answered to the last discovery
  logged,             \* the lines the router wrote to the log
  inflight            \* request slot -> the router call in progress in it

\* The container list and the log influence no later step of the program and
\* the requests of Spec run one at a time: only the specifications that trace
\* discovery, or interleave requests, change these three.

vars == <<pc, hseed, up, bucket, store, circle, availableStorages, nodes, initErr,
          last, lastPut, nops, flips, listed, logged, inflight>>
aux == <<listed, logged, inflight>>

\* ------------------------------------------------------------ nodes
Node(id, name, endpoint, accessKey, secretKey) ==
  [ID |-> id, Name |-> name, Endpoint |-> endpoint,
   AccessKey |-> accessKey, SecretKey |-> secretKey]

\* Node.String: "%s#%s"
NodeString(n) == n.ID \o <<"#">> \o n.Name

\* maskSecret: strings.Repeat("X", len(secret))
maskSecret(secret) == Rep("X", Len(secret))

\* Node.Debug printing the secret key as it is
NodeDebug_ClearSecret(n) ==
  n.ID \o <<"#">> \o n.Name \o <<"#">> \o n.Endpoint \o <<"#">> \o n.AccessKey
       \o <<"#">> \o n.SecretKey

\* Node.Debug: "%s#%s#%s#%s#%s" with the secret masked
NodeDebug(n) ==
  n.ID \o <<"#">> \o n.Name \o <<"#">> \o n.Endpoint \o <<"#">> \o n.AccessKey
       \o <<"#">> \o maskSecret(n.SecretKey)

\* fmt.Sprintf("%s:%d", addr, MinioApiPort)
EndpointOf(addr) == addr \o <<":", ToString(MinioApiPort)>>

\* ------------------------------------------------------------ backend client
\* The environment of one call: env == [up, bucket, store].  The minio client
\* answers from it; a call either fails with an error or succeeds.
NilObject == [nil |-> TRUE]
ErrConn == <<"connection refused">>
ErrNoBucket == <<"The specified bucket does not exist">>
ErrEmptyName == <<"Object name cannot be empty">>

\* minio.Client.BucketExists
ClientBucketExists(env, endpoint) ==
  IF ~env.up[endpoint] THEN [err |-> ErrConn, exists |-> FALSE]
  ELSE [err |-> NoErr, exists |-> env.bucket[endpoint]]

\* minio.Client.MakeBucket
ClientMakeBucket(env, endpoint) ==
  IF ~env.up[endpoint] THEN [err |-> ErrConn, env |-> env]
  ELSE [err |-> NoErr, env |-> [env EXCEPT !.bucket[endpoint] = TRUE]]

\* minio.Client.GetObject checks the object name and sends nothing yet
ClientGetObject(id) == IF id = <<>> THEN ErrEmptyName ELSE NoErr

\* Object.Stat followed by io.ReadAll: Stat sends the request, so a backend
\* failure is reported there
ClientStatAndRead(env, endpoint, id) ==
  IF ~env.up[endpoint] THEN [err |-> ErrConn, info |-> Nil, body |-> <<>>]
  ELSE IF ~env.bucket[endpoint] THEN [err |-> ErrNoBucket, info |-> Nil, body |-> <<>>]
  ELSE IF id \notin DOMAIN env.store[endpoint]
       THEN [err |-> MinioKeyNotExistErrString, info |-> Nil, body |-> <<>>]
  ELSE [err |-> NoErr,
        info |-> env.store[endpoint][id].ContentType,
        body |-> env.store[endpoint][id].Content]

\* minio.Client.PutObject: the object name is checked before anything is sent
ClientPutObject(env, endpoint, id, content, contentType) ==
  IF id = <<>> THEN [err |-> ErrEmptyName, sent |-> FALSE, env |-> env]
  ELSE IF ~env.up[endpoint] THEN [err |-> ErrConn, sent |-> TRUE, env |-> env]
  ELSE IF ~env.bucket[endpoint] THEN [err |-> ErrNoBucket, sent |-> TRUE, env |-> env]
  ELSE [err |-> NoErr, sent |-> TRUE,
        env |-> [env EXCEPT !.store[endpoint] =
                   [k \in (DOMAIN @) \cup {id} |->
                      IF k = id THEN [ContentType |-> contentType, Content |-> content]
                      ELSE @[k]]]]

\* minio.New: refuses an empty endpoint
ClientNew(endpoint) == IF endpoint = <<>> THEN <<"Endpoint:  does not follow ip address or domain name standards.">> ELSE NoErr

\* ------------------------------------------------------------ adapter
BucketName == <<"default">>

\* NewMinioStorage
NewMinioStorage(cfg) ==
  IF ClientNew(cfg.Endpoint) # NoErr
  THEN [err |-> <<"unable to create minio storage instance: ">> \o ClientNew(cfg.Endpoint),
        storage |-> Nil]
  ELSE [err |-> NoErr, storage |-> [endpoint |-> cfg.Endpoint, bucketName |-> cfg.BucketName]]

\* MinioStorage.Init
MinioInit(s, env) ==
  LET ex == ClientBucketExists(env, s.endpoint)
      mk == ClientMakeBucket(env, s.endpoint)
  IN  IF ex.err # NoErr
      THEN [err |-> <<"error init bucket (">> \o s.endpoint \o <<"): unable to check bucket: ">> \o ex.err,
            env |-> env]
      ELSE IF ex.exists THEN [err |-> NoErr, env |-> env]
      ELSE IF mk.err # NoErr
      THEN [err |-> <<"error init bucket (">> \o s.endpoint \o <<"): unable to create bucket: ">> \o mk.err,
            env |-> env]
      ELSE [err |-> NoErr, env |-> mk.env]

\* keyDoesNotExist
keyDoesNotExist(err) == Contains(err, MinioKeyNotExistErrString)

\* handleKeyDoesNotExistError without the keyDoesNotExist test: every
\* failure, a missing key included, is wrapped and returned
handleKeyDoesNotExistError_AlwaysError(s, err, prefix, id) ==
  [obj |-> NilObject,
   err |-> prefix \o <<" (">> \o s.endpoint \o <<" | ">> \o id \o <<"): ">> \o err]

\* MinioStorage.handleKeyDoesNotExistError
handleKeyDoesNotExistError(s, err, prefix, id) ==
  IF keyDoesNotExist(err)
  THEN [obj |-> NilObject, err |-> NoErr]
  ELSE [obj |-> NilObject,
        err |-> prefix \o <<" (">> \o s.endpoint \o <<" | ">> \o id \o <<"): ">> \o err]

\* MinioStorage.Get
MinioGet(s, id, env) ==
  LET r == ClientStatAndRead(env, s.endpoint, id)
  IN  IF ClientGetObject(id) # NoErr
      THEN handleKeyDoesNotExistError(s, ClientGetObject(id), <<"error get object">>, id)
      ELSE IF r.err # NoErr
      THEN handleKeyDoesNotExistError(s, r.err, <<"error get object: unable to read stat">>, id)
      ELSE [obj |-> Object(id, r.info, r.body), err |-> NoErr]

\* MinioStorage.Put with the ContentType option left out of PutObjectOptions
\* (the backend then files the object under its default type)
MinioPut_NoContentType(s, object, env) ==
  IF object = NilObject
  THEN [panicked |-> TRUE, err |-> NoErr, sent |-> FALSE, env |-> env]
  ELSE LET r == ClientPutObject(env, s.endpoint, object.ID, object.Content,
                                "application/octet-stream")
       IN  [panicked |-> FALSE,
            err |-> IF r.err = NoErr THEN NoErr
                    ELSE <<"error put object (">> \o s.endpoint \o <<" | ">> \o object.ID
                           \o <<"): ">> \o r.err,
            sent |-> r.sent, env |-> r.env]

\* MinioStorage.Put: object is dereferenced without a check, so a nil object
\* is a nil-pointer panic
MinioPut(s, object, env) ==
  IF object = NilObject
  THEN [panicked |-> TRUE, err |-> NoErr, sent |-> FALSE, env |-> env]
  ELSE LET r == ClientPutObject(env, s.endpoint, object.ID, object.Content, object.ContentType)
       IN  [panicked |-> FALSE,
            err |-> IF r.err = NoErr THEN NoErr
                    ELSE <<"error put object (">> \o s.endpoint \o <<" | ">> \o object.ID
                           \o <<"): ">> \o r.err,
            sent |-> r.sent, env |-> r.env]
\* ------------------------------------------------------------ discovery
\* the first non-empty IPAddress among the container's networks
RECURSIVE FirstAddr(_, _)
FirstAddr(ips, i) ==
  IF i > Len(ips) THEN <<>>
  ELSE IF ips[i] # <<>> THEN ips[i] ELSE FirstAddr(ips, i + 1)

\* containerEnv: the last entry with more than one part wins for its key
RECURSIVE EnvLookup(_, _, _)
EnvLookup(env, key, i) ==
  IF i = 0 THEN <<>>
  ELSE IF Len(env[i]) > 1 /\ env[i][1] = key THEN env[i][2]
  ELSE EnvLookup(env, key, i - 1)

\* DistributedStorage.getAvailableStorageNodes: the loop over the containers.
\* fatal: log.Fatalf was reached, which ends the process.
RECURSIVE DiscoverLoop(_, _, _)
DiscoverLoop(containers, i, storageNodes) ==
  IF i > Len(containers) THEN [fatal |-> FALSE, err |-> NoErr, nodes |-> storageNodes]
  ELSE LET container == containers[i]
           name == IF Len(container.Names) > 0 THEN container.Names[1] ELSE <<>>
           addr == IF container.HasNet THEN FirstAddr(container.IPs, 1) ELSE <<>>
           node == Node(container.ID, name, EndpointOf(addr),
                        EnvLookup(container.Env, MinioAccessKeyEnv, Len(container.Env)),
                        EnvLookup(container.Env, MinioSecretKeyEnv, Len(container.Env)))
       IN  IF container.ID = <<>> \/ ~container.HasNet
           THEN DiscoverLoop(containers, i + 1, storageNodes)
           ELSE IF ~Contains(name, ContainerNamePattern)
           THEN DiscoverLoop(containers, i + 1, storageNodes)
           ELSE IF addr = <<>>
           THEN [fatal |-> TRUE, err |-> NoErr, nodes |-> storageNodes]
           ELSE IF ~container.InspectOk
           THEN [fatal |-> FALSE,
                 err |-> <<"unable to inspect container ">> \o container.ID \o <<": ", "docker error">>,
                 nodes |-> <<>>]
           ELSE DiscoverLoop(containers, i + 1, Append(storageNodes, node))

getAvailableStorageNodes(containers, listOk) ==
  IF ~listOk
  THEN [fatal |-> FALSE, err |-> <<"unable to list containers: ", "docker error">>, nodes |-> <<>>]
  ELSE DiscoverLoop(containers, 1, <<>>)

\* the backends that exist: one per container that can be a storage node,
\* and the endpoint of the integration test
Backends ==
  {getAvailableStorageNodes(<<c>>, TRUE).nodes[1].Endpoint :
     c \in {k \in Containers : Len(getAvailableStorageNodes(<<k>>, TRUE).nodes) = 1}}
  \cup {TestEndpoint}

\* ------------------------------------------------------------ router
\* DistributedStorage.initStorageNode
initStorageNode(node, env) ==
  LET new == NewMinioStorage([Endpoint |-> node.Endpoint, AccessKey |-> node.AccessKey,
                              SecretKey |-> node.SecretKey, BucketName |-> BucketName])
      ini == MinioInit(new.storage, env)
  IN  IF new.err # NoErr
      THEN [storage |-> Nil, env |-> env,
            err |-> <<"create Minio storage for node ">> \o NodeDebug(node) \o <<": ">> \o new.err]
      ELSE IF ini.err # NoErr
      THEN [storage |-> Nil, env |-> ini.env,
            err |-> <<"initialize storage for node ">> \o NodeDebug(node) \o <<": ">> \o ini.err]
      ELSE [storage |-> new.storage, env |-> ini.env, err |-> NoErr]

\* DistributedStorage.initStorages: the loop; the map was assigned before it
RECURSIVE initStoragesLoop(_, _, _, _)
initStoragesLoop(nodeList, i, storages, env) ==
  IF i > Len(nodeList) THEN [err |-> NoErr, storages |-> storages, env |-> env]
  ELSE LET r == initStorageNode(nodeList[i], env)
           key == NodeString(nodeList[i])
       IN  IF r.err # NoErr THEN [err |-> r.err, storages |-> storages, env |-> r.env]
           ELSE initStoragesLoop(nodeList, i + 1,
                  [k \in (DOMAIN storages) \cup {key} |->
                     IF k = key THEN r.storage ELSE storages[k]],
                  r.env)

\* initStorages that files each adapter under its node's endpoint instead
\* of under node.String()
initStorages_KeyByEndpoint(nodeList, env) ==
  LET r == initStoragesLoop(nodeList, 1, EmptyFn, env)
      byEndpoint == {r.storages[k].endpoint : k \in DOMAIN r.storages}
  IN  [r EXCEPT !.storages =
         [e \in byEndpoint |-> CHOOSE a \in {r.storages[k] : k \in DOMAIN r.storages} :
                                  a.endpoint = e]]

initStorages(nodeList, env) == initStoragesLoop(nodeList, 1, EmptyFn, env)

\* DistributedStorage.initHashCircle
RECURSIVE AddAll(_, _, _)
AddAll(c, nodeList, i) ==
  IF i > Len(nodeList) THEN c
  ELSE AddAll(CircleAdd(c, NodeString(nodeList[i])), nodeList, i + 1)

initHashCircle(seed, nodeList) == AddAll(NewCircle(seed, Len(nodeList)), nodeList, 1)

\* DistributedStorage.Init, given what the Docker API answers.  The result
\* holds the router's fields after the call.
DSInit(seed, containers, listOk, env, oldCircle, oldStorages) ==
  LET d == getAvailableStorageNodes(containers, listOk)
      st == initStorages(d.nodes, env)
      hc == initHashCircle(seed, d.nodes)
  IN  IF d.fatal
      THEN [fatal |-> TRUE, panicked |-> FALSE, err |-> NoErr, nodes |-> d.nodes, env |-> env,
            circle |-> oldCircle, storages |-> oldStorages]
      ELSE IF d.err # NoErr
      THEN [fatal |-> FALSE, panicked |-> FALSE,
            err |-> <<"retrieve storage nodes: ">> \o d.err, nodes |-> d.nodes, env |-> env,
            circle |-> oldCircle, storages |-> oldStorages]
      ELSE IF st.err # NoErr
      THEN [fatal |-> FALSE, panicked |-> FALSE, err |-> st.err, nodes |-> d.nodes,
            env |-> st.env, circle |-> oldCircle, storages |-> st.storages]
      ELSE [fatal |-> FALSE, panicked |-> hc.panicked, err |-> NoErr, nodes |-> d.nodes,
            env |-> st.env, circle |-> hc, storages |-> st.storages]
\* ------------------------------------------------------------ the log
\* the node getAvailableStorageNodes builds for a container that passed the
\* filters
DiscoveredNode(container) ==
  Node(container.ID,
       IF Len(container.Names) > 0 THEN container.Names[1] ELSE <<>>,
       EndpointOf(IF container.HasNet THEN FirstAddr(container.IPs, 1) ELSE <<>>),
       EnvLookup(container.Env, MinioAccessKeyEnv, Len(container.Env)),
       EnvLookup(container.Env, MinioSecretKeyEnv, Len(container.Env)))

\* the lines getAvailableStorageNodes writes: log.Fatalf prints the node
\* with %v, which is Node.String; log.Printf "node added" prints Node.Debug
RECURSIVE DiscoverLog(_, _, _)
DiscoverLog(containers, i, lines) ==
  IF i > Len(containers) THEN lines
  ELSE LET container == containers[i]
           node == DiscoveredNode(container)
           addr == IF container.HasNet THEN FirstAddr(container.IPs, 1) ELSE <<>>
       IN  IF container.ID = <<>> \/ ~container.HasNet
           THEN DiscoverLog(containers, i + 1, lines)
           ELSE IF ~Contains(node.Name, ContainerNamePattern)
           THEN DiscoverLog(containers, i + 1, lines)
           ELSE IF addr = <<>>
           THEN Append(lines, <<"unable to resolve ip address of storage node: ">>
                                \o NodeString(node))
           ELSE IF ~container.InspectOk
           THEN lines
           ELSE DiscoverLog(containers, i + 1,
                  Append(lines, <<"getAvailableStorageNodes: node added ">> \o NodeDebug(node)))

\* the lines initStorages causes: NewMinioStorage prints the endpoint,
\* MinioStorage.Init prints when it created the bucket
RECURSIVE StoragesLog(_, _, _, _)
StoragesLog(nodeList, i, env, lines) ==
  IF i > Len(nodeList) THEN lines
  ELSE LET node == nodeList[i]
           r == initStorageNode(node, env)
           l1 == Append(lines, <<"NewMinioStorage: ">> \o node.Endpoint)
           l2 == IF r.err = NoErr /\ r.env.bucket # env.bucket
                 THEN Append(l1, <<"MinioStorage(">> \o node.Endpoint
                                   \o <<") Init completed: created bucket ">> \o BucketName)
                 ELSE l1
       IN  IF r.err # NoErr THEN l2 ELSE StoragesLog(nodeList, i + 1, r.env, l2)

\* everything DistributedStorage.Init writes to the log
InitLog(containers, listOk, env) ==
  LET d == getAvailableStorageNodes(containers, listOk)
      dl == IF listOk THEN DiscoverLog(containers, 1, <<>>) ELSE <<>>
      sl == dl \o StoragesLog(d.nodes, 1, env, <<>>)
  IN  IF d.fatal \/ d.err # NoErr THEN dl
      ELSE IF initStorages(d.nodes, env).err # NoErr THEN sl
      ELSE Append(sl, <<"DistributedStorage initialized successfully">>)

\* what a router or adapter call gives back: the returned object and error,
\* whether it panicked instead of returning, the member selected, the adapter
\* calls made (in order) and the environment afterwards
Outcome(obj, err, panicked, located, calls, env) ==
  [obj |-> obj, err |-> err, panicked |-> panicked, located |-> located,
   calls |-> calls, env |-> env]

AdapterCall(s, op) == [endpoint |-> s.endpoint, op |-> op]

\* the member chosen by position in the discovered list (hash modulo the
\* number of nodes) instead of by the ring
DSLocate_ByListPosition(c, id) ==
  IF c.nil \/ nodes = <<>> THEN [panicked |-> TRUE, key |-> NilMember]
  ELSE [panicked |-> FALSE,
        key |-> NodeString(nodes[(Sum64(c.seed, IdKey(id)) % Len(nodes)) + 1])]

\* s.circle.LocateKey([]byte(id)).String(): the token of the selected member;
\* a nil circle or a nil Member is a nil-pointer panic
DSLocate(c, id) ==
  IF c.nil THEN [panicked |-> TRUE, key |-> NilMember]
  ELSE IF LocateKey(c, id) = NilMember THEN [panicked |-> TRUE, key |-> NilMember]
  ELSE [panicked |-> FALSE, key |-> LocateKey(c, id)]

\* DistributedStorage.Put after the argument check: locate, resolve, store
DSPutRouted(c, storages, object, env) ==
  LET loc == DSLocate(c, object.ID)
      key == loc.key
      r == MinioPut(storages[key], object, env)
  IN  IF loc.panicked
      THEN Outcome(NilObject, NoErr, TRUE, NilMember, <<>>, env)
      ELSE IF key \notin DOMAIN storages
      THEN Outcome(NilObject,
                   <<"failed to push data: storage node not available (">> \o key \o <<")">>,
                   FALSE, key, <<>>, env)
      ELSE IF r.panicked
      THEN Outcome(NilObject, NoErr, TRUE, key, <<AdapterCall(storages[key], "Put")>>, r.env)
      ELSE IF r.err # NoErr
      THEN Outcome(NilObject,
                   <<"failed to put data using node (">> \o key \o <<"): ">> \o r.err,
                   FALSE, key, <<AdapterCall(storages[key], "Put")>>, r.env)
      ELSE Outcome(NilObject, NoErr, FALSE, key, <<AdapterCall(storages[key], "Put")>>, r.env)

\* DistributedStorage.Put without the argument check: a nil object is
\* dereferenced, an empty id is routed like any other
DSPut_NoCheck(c, storages, object, env) ==
  IF object = NilObject
  THEN Outcome(NilObject, NoErr, TRUE, NilMember, <<>>, env)
  ELSE DSPutRouted(c, storages, object, env)

\* DistributedStorage.Put
DSPut(c, storages, object, env) ==
  IF object = NilObject \/ object.ID = <<>>
  THEN Outcome(NilObject, <<"object is empty">>, FALSE, NilMember, <<>>, env)
  ELSE DSPutRouted(c, storages, object, env)

\* DistributedStorage.Get that, when the located adapter fails, asks another
\* registered adapter
DSGet_Failover(c, storages, id, env) ==
  LET loc == DSLocate(c, id)
      key == loc.key
      r == MinioGet(storages[key], id, env)
      others == (DOMAIN storages) \ {key}
      other == CHOOSE k \in others : TRUE
      r2 == MinioGet(storages[other], id, env)
  IN  IF loc.panicked
      THEN Outcome(NilObject, NoErr, TRUE, NilMember, <<>>, env)
      ELSE IF key \notin DOMAIN storages
      THEN Outcome(NilObject,
                   <<"failed to get data: storage node not available (">> \o key \o <<")">>,
                   FALSE, key, <<>>, env)
      ELSE IF r.err # NoErr /\ others # {}
      THEN Outcome(r2.obj,
                   IF r2.err = NoErr THEN NoErr
                   ELSE <<"failed to get data using node (">> \o other \o <<"): ">> \o r2.err,
                   FALSE, key,
                   <<AdapterCall(storages[key], "Get"), AdapterCall(storages[other], "Get")>>, env)
      ELSE IF r.err # NoErr
      THEN Outcome(NilObject,
                   <<"failed to get data using node (">> \o key \o <<"): ">> \o r.err,
                   FALSE, key, <<AdapterCall(storages[key], "Get")>>, env)
      ELSE Outcome(r.obj, NoErr, FALSE, key, <<AdapterCall(storages[key], "Get")>>, env)

\* DistributedStorage.Get
DSGet(c, storages, id, env) ==
  LET loc == DSLocate(c, id)
      key == loc.key
      r == MinioGet(storages[key], id, env)
  IN  IF loc.panicked
      THEN Outcome(NilObject, NoErr, TRUE, NilMember, <<>>, env)
      ELSE IF key \notin DOMAIN storages
      THEN Outcome(NilObject,
                   <<"failed to get data: storage node not available (">> \o key \o <<")">>,
                   FALSE, key, <<>>, env)
      ELSE IF r.err # NoErr
      THEN Outcome(NilObject,
                   <<"failed to get data using node (">> \o key \o <<"): ">> \o r.err,
                   FALSE, key, <<AdapterCall(storages[key], "Get")>>, env)
      ELSE Outcome(r.obj, NoErr, FALSE, key, <<AdapterCall(storages[key], "Get")>>, env)

\* ------------------------------------------------------------ gateway
\* alphanumericRegex: ^[a-zA-Z0-9]+$
alphanumericRegex(id) ==
  Len(id) >= 1 /\ \A i \in 1..Len(id) : id[i] \in AlNum

\* validateObjectID without the upper bound on the length
validateObjectID_NoMaxLen(id) ==
  IF Len(id) = 0 THEN FALSE ELSE alphanumericRegex(id)

\* validateObjectID
validateObjectID(id) ==
  IF Len(id) = 0 \/ Len(id) > MaxIDLen THEN FALSE ELSE alphanumericRegex(id)

\* what a handler gives back: the HTTP status, whether the store was called,
\* and the store's outcome (middleware.Recover turns a panic into a 500)
Response(status, called, out) == [status |-> status, called |-> called, out |-> out]

NoCall(env) == Outcome(NilObject, NoErr, FALSE, NilMember, <<>>, env)

\* getObject
getObject(c, storages, objectID, env) ==
  LET r == DSGet(c, storages, objectID, env)
  IN  IF ~validateObjectID(objectID) THEN Response(StatusBadRequest, FALSE, NoCall(env))
      ELSE IF r.panicked THEN Response(StatusInternalServerError, TRUE, r)
      ELSE IF r.err # NoErr THEN Response(StatusInternalServerError, TRUE, r)
      ELSE IF r.obj = NilObject THEN Response(StatusNotFound, TRUE, r)
      ELSE Response(StatusOK, TRUE, r)

\* putObject; readOk: io.ReadAll of the request body succeeded
putObject(c, storages, objectID, contentType, body, readOk, env) ==
  LET r == DSPut(c, storages, Object(objectID, contentType, body), env)
  IN  IF ~validateObjectID(objectID) THEN Response(StatusBadRequest, FALSE, NoCall(env))
      ELSE IF ~readOk THEN Response(StatusBadRequest, FALSE, NoCall(env))
      ELSE IF r.panicked THEN Response(StatusInternalServerError, TRUE, r)
      ELSE IF r.err # NoErr THEN Response(StatusInternalServerError, TRUE, r)
      ELSE Response(StatusOK, TRUE, r)
\* ------------------------------------------------------------ the system
\* request bodies: a content type with a content
Bodies == {[ContentType |-> "text/plain", Content |-> <<"H", "i">>],
           [ContentType |-> "application/json", Content |-> <<>>]}

\* what a caller may hand to Put: no object, or an object with any id
PutObjects ==
  {NilObject} \cup {Object(id, b.ContentType, b.Content) : id \in RouterIds, b \in Bodies}

\* the container lists the Docker API may answer with: no container twice
ContainerSeqs ==
  UNION {{q \in [1..n -> Containers] : \A i, j \in 1..n : i # j => q[i] # q[j]} :
           n \in 0..MaxContainers}

Env == [up |-> up, bucket |-> bucket, store |-> store]

\* the adapter of the integration test
TestStorage ==
  NewMinioStorage([Endpoint |-> TestEndpoint, AccessKey |-> <<"ring">>,
                   SecretKey |-> <<"treepotato">>, BucketName |-> <<"test-bucket">>]).storage

\* the record of one request: what was asked (kind, id, object), the HTTP
\* status and whether the handler called the store (gateway), what the call
\* gave back, whether the adapter sent anything to its backend, and whether
\* any backend's stored objects changed
Request(kind, id, object, status, called, out, sent) ==
  [kind |-> kind, id |-> id, object |-> object, status |-> status, called |-> called,
   obj |-> out.obj, err |-> out.err, panicked |-> out.panicked, located |-> out.located,
   calls |-> out.calls, sent |-> sent,
   wrote |-> out.env.store # store]

NoRequest == Request("none", <<>>, NilObject, 0, FALSE, NoCall(Env), FALSE)

\* the request slots, and a slot with no call in progress
Slots == 1..MaxInflight
InflightCall(stage, kind, object, id, key, err, panicked) ==
  [stage |-> stage, kind |-> kind, object |-> object, id |-> id, key |-> key,
   err |-> err, panicked |-> panicked]
IdleSlot == InflightCall("idle", "none", NilObject, <<>>, NilMember, NoErr, FALSE)

\* no discovery made yet
NoListing == [containers |-> <<>>, listOk |-> TRUE]

Init ==
  /\ pc \in {"start", "test"}
  /\ hseed \in 1..NumSeeds
  /\ up = [e \in Backends |-> TRUE]
  /\ bucket = [e \in Backends |-> FALSE]
  /\ store = [e \in Backends |-> EmptyFn]
  /\ circle = NilCircle
  /\ availableStorages = EmptyFn
  /\ nodes = <<>>
  /\ initErr = NoErr
  /\ last = NoRequest
  /\ lastPut = EmptyFn
  /\ nops = 0
  /\ flips = 0
  /\ listed = NoListing
  /\ logged = <<>>
  /\ inflight = [slot \in Slots |-> IdleSlot]

\* the backends whose state the run can observe: the test endpoint in the
\* integration test, and otherwise the storage nodes (all candidates before
\* Init, the discovered ones after)
Observed(e) ==
  IF pc = "test" THEN e = TestEndpoint
  ELSE IF pc = "start" THEN e # TestEndpoint
  ELSE \E i \in 1..Len(nodes) : nodes[i].Endpoint = e

\* a backend becomes unreachable, or reachable again (flips counts the
\* failures); its data stays.  last is the latest event: after a change of
\* reachability no request is the latest, so a recorded request was always
\* made with the backends reachable as they are now.
NodeDown(e) ==
  /\ flips < MaxFlips /\ up[e] /\ Observed(e)
  /\ up' = [up EXCEPT ![e] = FALSE]
  /\ flips' = flips + 1
  /\ last' = NoRequest
  /\ UNCHANGED aux
  /\ UNCHANGED <<pc, hseed, bucket, store, circle, availableStorages, nodes, initErr,
                 lastPut, nops>>

NodeUp(e) ==
  /\ ~up[e] /\ Observed(e)
  /\ up' = [up EXCEPT ![e] = TRUE]
  /\ last' = NoRequest
  /\ UNCHANGED aux
  /\ UNCHANGED <<pc, hseed, bucket, store, circle, availableStorages, nodes, initErr,
                 lastPut, nops, flips>>

\* main, lines 18-28: the router is built and Init is called; what Init
\* returns is dropped.  log.Fatalf in discovery, or a panic, ends the process.
MainInitStep(containers, listOk) ==
  /\ pc = "start"
  /\ LET r == DSInit(hseed, containers, listOk, Env, circle, availableStorages)
     IN  /\ pc' = IF r.fatal \/ r.panicked THEN "exited" ELSE "initialized"
         /\ circle' = r.circle
         /\ availableStorages' = r.storages
         /\ nodes' = r.nodes
         /\ initErr' = r.err
         /\ bucket' = r.env.bucket
         /\ store' = r.env.store
  /\ UNCHANGED <<hseed, up, last, lastPut, nops, flips>>

MainInit(containers, listOk) ==
  /\ MainInitStep(containers, listOk)
  /\ UNCHANGED aux

\* the same step, with the Docker API's answer and the log lines kept
MainInitTraced(containers, listOk) ==
  /\ MainInitStep(containers, listOk)
  /\ listed' = [containers |-> containers, listOk |-> listOk]
  /\ logged' = logged \o InitLog(containers, listOk, Env)
  /\ UNCHANGED inflight

\* main, lines 30-37: the gateway is created on the router and started
\* (a harness that calls the router itself does not go on to start it)
MainStart ==
  /\ pc = "initialized" /\ nops = 0
  /\ pc' = "serving"
  /\ UNCHANGED aux
  /\ UNCHANGED <<hseed, up, bucket, store, circle, availableStorages, nodes, initErr,
                 last, lastPut, nops, flips>>

\* main, lines 46-54: a signal arrives, the server is shut down and the
\* process ends: the router and what its callers hold are gone, the
\* backends keep their data
MainShutdown ==
  /\ pc = "serving"
  /\ pc' = "stopped"
  /\ circle' = NilCircle
  /\ availableStorages' = EmptyFn
  /\ nodes' = <<>>
  /\ last' = NoRequest
  /\ lastPut' = EmptyFn
  /\ UNCHANGED aux
  /\ UNCHANGED <<hseed, up, bucket, store, initErr, nops, flips>>

\* the bookkeeping of one router Put
Stored(object, out) ==
  IF out.panicked \/ out.err # NoErr THEN lastPut
  ELSE [k \in (DOMAIN lastPut) \cup {object.ID} |->
          IF k = object.ID
          THEN [object |-> object,
                overwrote |-> k \in DOMAIN lastPut /\ lastPut[k].object # object]
          ELSE lastPut[k]]

\* the line Put or Get writes to the log once the member is located
CallLog(kind, out, id) ==
  IF out.located = NilMember THEN <<>>
  ELSE << <<"DistributedStorage.", kind, ": ">> \o out.located \o <<" | ">> \o id >>

\* a caller holding the router calls Put
RouterPutStep(object) ==
  /\ pc = "initialized" /\ nops < MaxOps
  /\ LET out == DSPut(circle, availableStorages, object, Env)
         id == IF object = NilObject THEN <<>> ELSE object.ID
     IN  /\ last' = Request("RouterPut", id, object, 0, TRUE, out, FALSE)
         /\ store' = out.env.store
         /\ lastPut' = Stored(object, out)
  /\ nops' = nops + 1
  /\ UNCHANGED <<pc, hseed, up, bucket, circle, availableStorages, nodes, initErr, flips>>

RouterPut(object) ==
  /\ RouterPutStep(object)
  /\ UNCHANGED aux

\* the same step, with the log line kept
RouterPutTraced(object) ==
  /\ RouterPutStep(object)
  /\ logged' = logged \o CallLog("Put", DSPut(circle, availableStorages, object, Env),
                                  IF object = NilObject THEN <<>> ELSE object.ID)
  /\ UNCHANGED <<listed, inflight>>

\* a caller holding the router calls Get
RouterGetStep(id) ==
  /\ pc = "initialized" /\ nops < MaxOps
  /\ LET out == DSGet(circle, availableStorages, id, Env)
     IN  /\ last' = Request("RouterGet", id, NilObject, 0, TRUE, out, FALSE)
  /\ nops' = nops + 1
  /\ UNCHANGED <<pc, hseed, up, bucket, store, circle, availableStorages, nodes, initErr,
                 lastPut, flips>>

RouterGet(id) ==
  /\ RouterGetStep(id)
  /\ UNCHANGED aux

\* the same step, with the log line kept
RouterGetTraced(id) ==
  /\ RouterGetStep(id)
  /\ logged' = logged \o CallLog("Get", DSGet(circle, availableStorages, id, Env), id)
  /\ UNCHANGED <<listed, inflight>>

\* PUT /object/:id on the running gateway (a body that is never read, or
\* cannot be read, is taken to be the first one)
GatewayPut(id, body, readOk) ==
  /\ pc = "serving" /\ nops < MaxOps
  /\ (validateObjectID(id) /\ readOk) \/ body.ContentType = "text/plain"
  /\ validateObjectID(id) \/ readOk
  /\ LET rsp == putObject(circle, availableStorages, id, body.ContentType, body.Content,
                          readOk, Env)
         object == Object(id, body.ContentType, body.Content)
     IN  /\ last' = Request("GatewayPut", id, object, rsp.status, rsp.called, rsp.out, FALSE)
         /\ store' = rsp.out.env.store
         /\ lastPut' = IF rsp.called THEN Stored(object, rsp.out) ELSE lastPut
  /\ nops' = nops + 1
  /\ UNCHANGED aux
  /\ UNCHANGED <<pc, hseed, up, bucket, circle, availableStorages, nodes, initErr, flips>>

\* GET /object/:id on the running gateway
GatewayGet(id) ==
  /\ pc = "serving" /\ nops < MaxOps
  /\ LET rsp == getObject(circle, availableStorages, id, Env)
     IN  /\ last' = Request("GatewayGet", id, NilObject, rsp.status, rsp.called, rsp.out, FALSE)
  /\ nops' = nops + 1
  /\ UNCHANGED aux
  /\ UNCHANGED <<pc, hseed, up, bucket, store, circle, availableStorages, nodes, initErr,
                 lastPut, flips>>

\* the integration test: one adapter on the test endpoint, called directly
AdapterInit ==
  /\ pc = "test" /\ nops < MaxOps
  /\ LET r == MinioInit(TestStorage, Env)
     IN  /\ last' = Request("AdapterInit", <<>>, NilObject, 0, FALSE,
                            Outcome(NilObject, r.err, FALSE, NilMember, <<>>, r.env), FALSE)
         /\ bucket' = r.env.bucket
  /\ nops' = nops + 1
  /\ UNCHANGED aux
  /\ UNCHANGED <<pc, hseed, up, store, circle, availableStorages, nodes, initErr,
                 lastPut, flips>>

AdapterPut(object) ==
  /\ pc = "test" /\ nops < MaxOps
  /\ LET r == MinioPut(TestStorage, object, Env)
         id == IF object = NilObject THEN <<>> ELSE object.ID
     IN  /\ last' = Request("AdapterPut", id, object, 0, FALSE,
                            Outcome(NilObject, r.err, r.panicked, NilMember, <<>>, r.env), r.sent)
         /\ store' = r.env.store
  /\ nops' = nops + 1
  /\ UNCHANGED aux
  /\ UNCHANGED <<pc, hseed, up, bucket, circle, availableStorages, nodes, initErr,
                 lastPut, flips>>

AdapterGet(id) ==
  /\ pc = "test" /\ nops < MaxOps
  /\ LET r == MinioGet(TestStorage, id, Env)
     IN  /\ last' = Request("AdapterGet", id, NilObject, 0, FALSE,
                            Outcome(r.obj, r.err, FALSE, NilMember, <<>>, Env), FALSE)
  /\ nops' = nops + 1
  /\ UNCHANGED aux
  /\ UNCHANGED <<pc, hseed, up, bucket, store, circle, availableStorages, nodes, initErr,
                 lastPut, flips>>

\* ------------------------------------------------------------ concurrent calls
\* The router's fields after a step of Put or Get: neither method assigns
\* s.circle or s.availableStorages, and LocateKey only reads the ring.
RouterAfterCall_EvictOnError(c, storages, key, err) ==
  [circle |-> c,
   storages |-> IF err # NoErr /\ key \in DOMAIN storages
                THEN [k \in (DOMAIN storages) \ {key} |-> storages[k]]
                ELSE storages]

RouterAfterCall(c, storages, key, err) == [circle |-> c, storages |-> storages]

\* what Put or Get gives when run on the router and backends as they are now
CallOutcome(call) ==
  IF call.kind = "Put" THEN DSPut(circle, availableStorages, call.object, Env)
  ELSE DSGet(circle, availableStorages, call.id, Env)

\* one step of a call in progress moves the slot and leaves the rest
SlotStep(slot, call, key, err) ==
  /\ inflight' = [inflight EXCEPT ![slot] = call]
  /\ circle' = RouterAfterCall(circle, availableStorages, key, err).circle
  /\ availableStorages' = RouterAfterCall(circle, availableStorages, key, err).storages

\* a request handler enters Put or Get while other calls are in progress
\* (the slots are interchangeable: a new call takes the lowest free one)
ReqBegin(slot, kind, object, id) ==
  /\ pc = "initialized" /\ nops < MaxOps
  /\ inflight[slot].stage = "idle"
  /\ \A other \in Slots : other < slot => inflight[other].stage # "idle"
  /\ SlotStep(slot, InflightCall("begun", kind, object, id, NilMember, NoErr, FALSE),
              NilMember, NoErr)
  /\ nops' = nops + 1
  /\ UNCHANGED <<pc, hseed, up, bucket, store, nodes, initErr, last, lastPut, flips,
                 listed, logged>>

\* the argument check of Put and s.circle.LocateKey(...).String()
ReqLocate(slot) ==
  /\ inflight[slot].stage = "begun"
  /\ LET call == inflight[slot]
         out == CallOutcome(call)
     IN  IF out.located = NilMember
         THEN SlotStep(slot, [call EXCEPT !.stage = "done", !.err = out.err,
                                          !.panicked = out.panicked], NilMember, out.err)
         ELSE SlotStep(slot, [call EXCEPT !.stage = "located", !.key = out.located],
                       out.located, NoErr)
  /\ UNCHANGED <<pc, hseed, up, bucket, store, nodes, initErr, last, lastPut, nops, flips,
                 listed, logged>>

\* storage, ok := s.availableStorages[key]
ReqResolve(slot) ==
  /\ inflight[slot].stage = "located"
  /\ LET call == inflight[slot]
         out == CallOutcome(call)
     IN  IF out.calls = <<>>
         THEN SlotStep(slot, [call EXCEPT !.stage = "done", !.err = out.err,
                                          !.panicked = out.panicked], call.key, out.err)
         ELSE SlotStep(slot, [call EXCEPT !.stage = "resolved"], call.key, NoErr)
  /\ UNCHANGED <<pc, hseed, up, bucket, store, nodes, initErr, last, lastPut, nops, flips,
                 listed, logged>>

\* storage.Put / storage.Get on the backend as it is at this moment
ReqCall(slot) ==
  /\ inflight[slot].stage = "resolved"
  /\ LET call == inflight[slot]
         out == CallOutcome(call)
     IN  /\ SlotStep(slot, [call EXCEPT !.stage = "done", !.err = out.err,
                                        !.panicked = out.panicked], call.key, out.err)
         /\ store' = out.env.store
  /\ UNCHANGED <<pc, hseed, up, bucket, nodes, initErr, last, lastPut, nops, flips,
                 listed, logged>>

\* the call returns to its handler
ReqReturn(slot) ==
  /\ inflight[slot].stage = "done"
  /\ SlotStep(slot, IdleSlot, inflight[slot].key, inflight[slot].err)
  /\ UNCHANGED <<pc, hseed, up, bucket, store, nodes, initErr, last, lastPut, nops, flips,
                 listed, logged>>

Next ==
  \/ \E e \in Backends : NodeDown(e)
  \/ \E e \in Backends : NodeUp(e)
  \/ pc = "start" /\ \E containers \in ContainerSeqs, listOk \in BOOLEAN :
                       MainInit(containers, listOk)
  \/ MainStart
  \/ MainShutdown
  \/ \E object \in PutObjects : RouterPut(object)
  \/ \E id \in RouterIds : RouterGet(id)
  \/ \E id \in IdSet, body \in Bodies, readOk \in BOOLEAN : GatewayPut(id, body, readOk)
  \/ \E id \in IdSet : GatewayGet(id)
  \/ AdapterInit
  \/ \E object \in PutObjects : AdapterPut(object)
  \/ \E id \in RouterIds : AdapterGet(id)

Spec == Init /\ [][Next]_vars

\* what the concurrent callers hand to Put: one body is enough, the calls
\* differ in their ids
ConcObjects == {NilObject} \cup {Object(id, "text/plain", <<"H", "i">>) : id \in RouterIds}

\* the router after Init, its calls interleaved step by step
ConcNext ==
  \/ \E e \in Backends : NodeDown(e)
  \/ \E e \in Backends : NodeUp(e)
  \/ pc = "start" /\ \E containers \in ContainerSeqs, listOk \in BOOLEAN :
                       MainInit(containers, listOk)
  \/ \E slot \in Slots, object \in ConcObjects : ReqBegin(slot, "Put", object, <<>>)
  \/ \E slot \in Slots, id \in RouterIds : ReqBegin(slot, "Get", NilObject, id)
  \/ \E slot \in Slots : ReqLocate(slot)
  \/ \E slot \in Slots : ReqResolve(slot)
  \/ \E slot \in Slots : ReqCall(slot)
  \/ \E slot \in Slots : ReqReturn(slot)

ConcSpec == Init /\ [][ConcNext]_vars

\* the router with what discovery read and everything it logged kept
DiscNext ==
  \/ \E e \in Backends : NodeDown(e)
  \/ \E e \in Backends : NodeUp(e)
  \/ pc = "start" /\ \E containers \in ContainerSeqs, listOk \in BOOLEAN :
                       MainInitTraced(containers, listOk)
  \/ \E object \in ConcObjects : RouterPutTraced(object)
  \/ \E id \in RouterIds : RouterGetTraced(id)

DiscSpec == Init /\ [][DiscNext]_vars
\* ------------------------------------------------------------ properties
\* Init returned nil and the process is running
Ready == pc \in {"initialized", "serving"} /\ initErr = NoErr

Tokens(nodeList) == {NodeString(nodeList[i]) : i \in 1..Len(nodeList)}

\* the last request is a call of the router's Put or Get
RouterCall == last.kind \in {"RouterPut", "RouterGet", "GatewayPut", "GatewayGet"} /\ last.called
IsGet == last.kind \in {"RouterGet", "GatewayGet"}
IsGateway == last.kind \in {"GatewayPut", "GatewayGet"}

\* the backend of the member the ring gives for id (ring not empty)
OwnerEndpoint(id) == availableStorages[LocateKey(circle, id)].endpoint

Perms(q) == {p \in [1..Len(q) -> 1..Len(q)] : \A i, j \in 1..Len(q) : i # j => p[i] # p[j]}
Permuted(q, p) == [i \in 1..Len(q) |-> q[p[i]]]

C2_NotFoundIsNotAnError ==
  /\ (last.kind = "AdapterGet" /\ last.id # <<>> /\ up[TestEndpoint] /\ bucket[TestEndpoint]
        /\ last.id \notin DOMAIN store[TestEndpoint])
     => (last.obj = NilObject /\ last.err = NoErr)
  /\ (Ready /\ nodes # <<>> /\ RouterCall /\ IsGet /\ last.id # <<>>
        /\ up[OwnerEndpoint(last.id)] /\ last.id \notin DOMAIN store[OwnerEndpoint(last.id)])
     => /\ last.obj = NilObject /\ last.err = NoErr /\ ~last.panicked
        /\ last.kind = "GatewayGet" => last.status = StatusNotFound

C2_Witness ==
  /\ Ready /\ Len(nodes) > 1 /\ RouterCall /\ last.kind = "GatewayGet"
  /\ last.calls # <<>>
  /\ last.obj = NilObject /\ last.err = NoErr
  /\ \E e \in Backends : store[e] # EmptyFn

\* C3: when the adapter of one discovered node fails to initialise, Init
\* returns an error naming that node and the router is left without a ring
\* and without a registry covering only part of the node set.
AdapterInitFailed ==
  pc \in {"initialized", "serving"} /\ Contains(initErr, <<"initialize storage for node ">>)

C3_FailedInitLeavesNothingPartial ==
  AdapterInitFailed
  => /\ \E i \in 1..Len(nodes) : Contains(initErr, NodeDebug(nodes[i]))
     /\ circle = NilCircle
     /\ DOMAIN availableStorages \in {{}, Tokens(nodes)}

\* C4: the gateway is never started on a router whose Init returned an
\* error, so no request reaches a router that is not Ready.
C4_NoServingAfterFailedInit ==
  /\ pc = "serving" => initErr = NoErr
  /\ (IsGateway /\ last.called) => initErr = NoErr

\* C5: a gateway GET or PUT whose id is not 1 to 32 ASCII letters or digits
\* is answered with 400 and the store is not called.
SpecObjectID(id) == Len(id) \in 1..MaxIDLen /\ \A i \in 1..Len(id) : id[i] \in AlNum

C5_InvalidIdRejected ==
  (IsGateway /\ ~SpecObjectID(last.id))
  => (last.status = StatusBadRequest /\ ~last.called /\ last.calls = <<>> /\ ~last.wrote)

C5_Witness ==
  /\ last.kind = "GatewayPut" /\ Len(last.id) = MaxIDLen + 1
  /\ last.status = StatusBadRequest /\ Ready /\ nodes # <<>>

\* C6: the member the router selects for an id is the one the ring gives
\* when built from the same nodes in any order: it depends only on the id
\* and on the set of member tokens, not on insertion order or on earlier
\* requests.
C6_RoutingDependsOnIdAndMemberSet ==
  (Ready /\ RouterCall /\ last.located # NilMember)
  => \A p \in Perms(nodes) :
       LocateKey(initHashCircle(hseed, Permuted(nodes, p)), last.id) = last.located

C6_Witness ==
  /\ Ready /\ RouterCall /\ last.located # NilMember /\ Len(nodes) = 3 /\ nops = MaxOps
  /\ last.located # NodeString(nodes[1])

\* C7: a router Put or Get with a non-empty id calls exactly one adapter,
\* the one registered for the located member, once; an adapter error comes
\* back as an error naming the member, with no retry and no other adapter
\* called; objects are stored only on the backend their id maps to.
C7_OneAdapterNoFailover ==
  /\ (Ready /\ nodes # <<>> /\ RouterCall /\ last.id # <<>>)
     => /\ ~last.panicked
        /\ last.located = LocateKey(circle, last.id)
        /\ last.calls = <<[endpoint |-> OwnerEndpoint(last.id),
                           op |-> IF IsGet THEN "Get" ELSE "Put"]>>
        /\ last.err # NoErr => Contains(last.err, last.located)
  /\ (Ready /\ nodes # <<>>)
     => \A e \in Backends \ {TestEndpoint} : \A id \in DOMAIN store[e] : e = OwnerEndpoint(id)

C7_Witness ==
  /\ Ready /\ Len(nodes) > 1 /\ RouterCall /\ last.id # <<>>
  /\ ~up[OwnerEndpoint(last.id)]
  /\ last.err # NoErr /\ Len(last.calls) = 1

\* C8: router Put with no object or an empty id returns the "object is
\* empty" error without locating a member or calling an adapter, and no
\* backend's stored objects change.
C8_RouterPutRejectsEmpty ==
  (last.kind = "RouterPut" /\ (last.object = NilObject \/ last.object.ID = <<>>))
  => /\ last.err = <<"object is empty">>
     /\ ~last.panicked
     /\ last.located = NilMember
     /\ last.calls = <<>>
     /\ ~last.wrote

C8_Witness ==
  /\ last.kind = "RouterPut" /\ last.object # NilObject /\ last.object.ID = <<>>
  /\ Ready /\ nodes # <<>> /\ lastPut # EmptyFn
  /\ last.err = <<"object is empty">>

\* C9: adapter Put called directly with no object or an empty id fails with
\* an error, sends nothing to the backend and stores nothing.
C9_AdapterPutRejectsEmpty ==
  (last.kind = "AdapterPut" /\ (last.object = NilObject \/ last.object.ID = <<>>))
  => (~last.panicked /\ last.err # NoErr /\ ~last.sent /\ ~last.wrote)

\* C10: when Init completed over an empty node set, router Put and Get
\* return an error instead of crashing or selecting a member.
C10_EmptyRingIsAnError ==
  (Ready /\ nodes = <<>> /\ RouterCall)
  => (~last.panicked /\ last.err # NoErr /\ last.located = NilMember)

\* C11: after a successful Init the member tokens of the ring are exactly
\* the keys of the adapter registry, one token per discovered node, each
\* with the initialised adapter of that node; and no router call ends in the
\* "storage node not available" branch.
NotAvailableErrs ==
  {<<"failed to push data: storage node not available (">>,
   <<"failed to get data: storage node not available (">>}

C11_RingAndRegistryAgree ==
  /\ Ready
     => /\ circle # NilCircle
        /\ circle.members = DOMAIN availableStorages
        /\ circle.members = Tokens(nodes)
        /\ Cardinality(circle.members) = Len(nodes)
        /\ \A i \in 1..Len(nodes) :
             /\ availableStorages[NodeString(nodes[i])].endpoint = nodes[i].Endpoint
             /\ bucket[nodes[i].Endpoint]
        /\ \A id \in IdSet :
             nodes # <<>> => LocateKey(circle, id) \in DOMAIN availableStorages
  /\ RouterCall => \A e \in NotAvailableErrs : ~Contains(last.err, e)

C11_Witness ==
  /\ Ready /\ Len(nodes) = 3 /\ Cardinality(DOMAIN availableStorages) = 3
  /\ RouterCall /\ last.err # NoErr /\ last.calls # <<>>

\* C12: once Init has completed, no step of any Put or Get, however the
\* calls in progress are interleaved and whether they succeed or fail,
\* changes the ring or the adapter registry.
C12_RequestsLeaveRoutingStateAlone ==
  [][(inflight' # inflight) => (circle' = circle /\ availableStorages' = availableStorages)]_vars

C12_Witness ==
  /\ Len(nodes) > 1 /\ initErr = NoErr
  /\ \E a, b \in Slots :
       /\ inflight[a].stage = "done" /\ inflight[a].err # NoErr /\ inflight[a].key # NilMember
       /\ inflight[b].stage = "located" /\ inflight[b].key = inflight[a].key
  /\ \E e \in Backends : store[e] # EmptyFn

\* the candidates of a listing: containers whose name matches the pattern
NameMatches(c) == Len(c.Names) > 0 /\ Contains(c.Names[1], ContainerNamePattern)
Addressless(c) == ~c.HasNet \/ FirstAddr(c.IPs, 1) = <<>>
Listed == {listed.containers[i] : i \in 1..Len(listed.containers)}
Discovered == pc \notin {"start", "test"} /\ listed.listOk

\* C13: when a listed candidate matches the naming pattern but has no
\* network address, discovery leaves it out, returns the other candidates
\* and the process carries on.
C13_AddresslessCandidateIsSkipped ==
  (/\ Discovered
   /\ \E c \in Listed : NameMatches(c) /\ Addressless(c)
   /\ \A c \in Listed : (NameMatches(c) /\ ~Addressless(c)) => c.InspectOk)
  => /\ pc # "exited"
     /\ Tokens(nodes) = {NodeString(DiscoveredNode(c)) :
                           c \in {k \in Listed : NameMatches(k) /\ ~Addressless(k)}}

\* the secret keys of the listed containers, and a listing that differs from
\* the one read only in the characters of every secret key
ListedSecrets == {DiscoveredNode(c).SecretKey : c \in Listed} \ {<<>>}
OtherChars(v) == [j \in 1..Len(v) |-> IF v[j] = "q" THEN "r" ELSE "q"]
SwapSecrets(containers) ==
  [i \in 1..Len(containers) |->
     [containers[i] EXCEPT !.Env =
        [j \in 1..Len(containers[i].Env) |->
           LET e == containers[i].Env[j]
           IN  IF Len(e) > 1 /\ e[1] = MinioSecretKeyEnv
               THEN [e EXCEPT ![2] = OtherChars(e[2])] ELSE e]]]
Outputs == {logged[i] : i \in 1..Len(logged)} \cup {initErr, last.err}

\* C14: no log line and no error message of discovery, Init, Put or Get
\* contains the secret key of a listed node, and an Init over a listing that
\* differs only in the characters of the secret keys writes the same log,
\* returns the same error and leaves the same ring and registry.
C14_SecretNeverInOutput ==
  /\ [](\A o \in Outputs : \A sk \in ListedSecrets : ~Contains(o, sk))
  /\ [][(pc = "start" /\ pc' # "start")
        => LET twin == SwapSecrets(listed'.containers)
               r2 == DSInit(hseed, twin, listed'.listOk, Env, circle, availableStorages)
           IN  /\ r2.err = initErr'
               /\ logged \o InitLog(twin, listed'.listOk, Env) = logged'
               /\ r2.circle = circle'
               /\ r2.storages = availableStorages']_vars

C14_Witness ==
  /\ pc = "initialized" /\ last.err # NoErr
  /\ \E c \in Listed :
       /\ Len(DiscoveredNode(c).SecretKey) >= 3
       /\ Contains(initErr, NodeDebug(DiscoveredNode(c)))
  /\ \E i \in 1..Len(logged), n \in 1..Len(nodes) :
       /\ nodes[n].SecretKey # <<>>
       /\ Contains(logged[i], NodeDebug(nodes[n]))
====
